---- MODULE Spec2Model ----
(***************************************************************************)
(* Model of main.py: a command-line tool that validates a YouTube URL,     *)
(* checks for ffmpeg/ffprobe, ensures the output directory, probes the URL *)
(* with yt-dlp, optionally asks for confirmation, downloads, and maps the  *)
(* outcome to a process exit code.                                         *)
(*                                                                         *)
(* Strings that the program inspects (the URL, the answer typed at the     *)
(* prompt) are sequences of one-character strings, so that substring       *)
(* search and lower-casing are computed, not assumed.                      *)
(***************************************************************************)
EXTENDS Integers, Sequences, FiniteSets, TLC

\* Longest playlist enumerated for a probe result.
MaxEntries == 5

----------------------------------------------------------------------------
\* String helpers

\* Python's `needle in hay` for str.
Contains(hay, needle) ==
    \E i \in 1..(Len(hay) - Len(needle) + 1) :
        SubSeq(hay, i, i + Len(needle) - 1) = needle

UpperAlpha ==
    <<"A","B","C","D","E","F","G","H","I","J","K","L","M",
      "N","O","P","Q","R","S","T","U","V","W","X","Y","Z">>

LowerAlpha ==
    <<"a","b","c","d","e","f","g","h","i","j","k","l","m",
      "n","o","p","q","r","s","t","u","v","w","x","y","z">>

LowerCh(c) ==
    IF \E i \in 1..26 : UpperAlpha[i] = c
    THEN LowerAlpha[CHOOSE i \in 1..26 : UpperAlpha[i] = c]
    ELSE c

\* str.lower()
Lower(s) == [i \in 1..Len(s) |-> LowerCh(s[i])]

youtube_com == <<"y","o","u","t","u","b","e",".","c","o","m">>
youtu_be    == <<"y","o","u","t","u",".","b","e">>

y_str   == <<"y">>
yes_str == <<"y","e","s">>

----------------------------------------------------------------------------
\* Inputs

\* Command-line URL arguments tried.
Urls ==
    { <<"y","o","u","t","u",".","b","e","/","a">>,
      <<"y","o","u","t","u","b","e",".","c","o","m","/","w">>,
      <<"x",".","i","o","/","?","y","o","u","t","u",".","b","e">>,
      <<"y","o","u","t","u","b","e",".","c","o">>,
      <<"Y","o","u","T","u","b","e",".","c","o","m">>,
      <<"v","i","m","e","o",".","c","o","m">>,
      <<>> }

\* Lines typed at the confirmation prompt.
Responses ==
    { <<"y">>, <<"Y">>, <<"y","e","s">>, <<"Y","E","S">>,
      <<"Y","e","s">>, <<"y","E","s">>,
      <<"n">>, <<"N">>, <<"n","o">>, <<>>,
      <<"y","e">>, <<"y"," ">>, <<"y","e","s","!">> }

\* info['entries'] of a playlist: each entry is a descriptor or None.
EntryLists ==
    UNION { [1..n -> {"desc", "None"}] : n \in 0..MaxEntries }

\* What ydl.extract_info(url, download=False) can hand back: a video dict
\* (no 'entries' key), a playlist dict, or None (ignoreerrors is set).
ProbeResults ==
    { [kind |-> "single", entries |-> <<>>],
      [kind |-> "none",   entries |-> <<>>] }
    \cup { [kind |-> "collection", entries |-> es] : es \in EntryLists }

NoInfo == [kind |-> "unset", entries |-> <<>>]

\* Exception classes raised by the collaborators.
ExcClasses == {"DownloadError", "OSError", "EOFError"}

NoRaise == [stage |-> "none", exc |-> "none"]

----------------------------------------------------------------------------
VARIABLES
    pc,                 \* position in main / download_audio
    url,                \* args.url
    skip_confirmation,  \* args.no_confirm
    ffmpegOnPath,       \* shutil.which('ffmpeg') finds something
    ffprobeOnPath,      \* shutil.which('ffprobe') finds something
    dirExists,          \* os.path.exists(output_dir)
    info,               \* result of the probe
    response,           \* answer read by input()
    raised,             \* exception raised inside the try block, and where
    uncaught,           \* exception that left download_audio
    download_retcode,   \* <<>>, or <<code>> returned by ydl.download (unused)
    result,             \* return value of download_audio
    exitCode,           \* <<>> while running, <<code>> once exited
    calls,              \* external calls made, in order
    out                 \* printed lines, in order

vars == <<pc, url, skip_confirmation, ffmpegOnPath, ffprobeOnPath, dirExists,
          info, response, raised, uncaught, download_retcode, result, exitCode,
          calls, out>>

Line(tag) == [tag |-> tag, n |-> 0]
LineN(tag, k) == [tag |-> tag, n |-> k]

Printed(tag) == \E i \in 1..Len(out) : out[i].tag = tag
Called(c) == \E i \in 1..Len(calls) : calls[i] = c
CountCalls(c) == Cardinality({i \in 1..Len(calls) : calls[i] = c})

----------------------------------------------------------------------------
\* Pure pieces of the program

\* a looser host test: the top-level domain is not compared
ValidUrl_NoTld(u) ==
    Contains(u, SubSeq(youtube_com, 1, 7)) \/ Contains(u, youtu_be)

\* main: the URL passes validation
ValidUrl(u) == Contains(u, youtube_com) \/ Contains(u, youtu_be)

\* only the transcoder is looked up
check_ffmpeg_OnlyFfmpeg(ffmpeg, ffprobe) == ffmpeg

\* check_ffmpeg()
check_ffmpeg(ffmpeg, ffprobe) == ~(~ffmpeg \/ ~ffprobe)

\* every non-empty probe result is taken for a playlist
IsCollection_Always(i) == i.kind \in {"collection", "single"}

\* 'entries' in info
IsCollection(i) == i.kind = "collection"

\* len(info['entries'])
total_count(entries) == Len(entries)

\* the None filter is missing
available_count_Unfiltered(entries) == Len(entries)

\* len([e for e in info['entries'] if e is not None])
available_count(entries) ==
    Cardinality({i \in 1..Len(entries) : entries[i] # "None"})

\* the prompt is shown
NeedsConfirmation(i, skip) == IsCollection(i) /\ ~skip

\* any answer starting with y/Y is accepted
IsAffirmative_Prefix(r) == Len(r) > 0 /\ LowerCh(r[1]) = "y"

\* response.lower() in ['y', 'yes']
IsAffirmative(r) == Lower(r) \in {y_str, yes_str}

\* the broad except clause comes first
ExceptionLabel_Generic(exc) == "unexpected_error"

\* which except clause catches an exception
ExceptionLabel(exc) ==
    IF exc = "DownloadError" THEN "download_error" ELSE "unexpected_error"

\* the code returned by ydl.download decides the outcome
ReturnAfterDownload_Retcode(retcode) ==
    IF retcode = 0 THEN "True" ELSE "False"

\* download_audio's return value once ydl.download() has returned retcode
ReturnAfterDownload(retcode) == "True"

\* sys.exit(1) is missing after the failure banner
ExitCode_AlwaysZero(success) == 0

\* main: exit status for a given return value of download_audio
ExitCode(success) == IF success = "True" THEN 0 ELSE 1

----------------------------------------------------------------------------
Init ==
    /\ pc = "main"
    /\ url \in Urls
    /\ skip_confirmation \in BOOLEAN
    /\ ffmpegOnPath \in BOOLEAN
    /\ ffprobeOnPath \in BOOLEAN
    /\ dirExists \in BOOLEAN
    /\ info = NoInfo
    /\ response = <<>>
    /\ raised = NoRaise
    /\ uncaught = "none"
    /\ download_retcode = <<>>
    /\ result = "none"
    /\ exitCode = <<>>
    /\ calls = <<>>
    /\ out = <<>>

\* An exception raised inside the try block is caught by one of the two
\* except clauses: a labelled line is printed and False is returned.
Caught(stage, exc, newCalls) ==
    /\ raised' = [stage |-> stage, exc |-> exc]
    /\ out' = Append(out, Line(ExceptionLabel(exc)))
    /\ result' = "False"
    /\ calls' = newCalls
    /\ pc' = "returned"

\* main: URL validation
Validate ==
    /\ pc = "main"
    /\ IF ~ValidUrl(url)
       THEN /\ out' = Append(out, Line("invalid_url"))
            /\ exitCode' = <<1>>
            /\ pc' = "exited"
       ELSE /\ out' = Append(out, Line("processing"))
            /\ exitCode' = exitCode
            /\ pc' = "check_ffmpeg"
    /\ UNCHANGED <<url, skip_confirmation, ffmpegOnPath, ffprobeOnPath,
                   dirExists, info, response, raised, uncaught, result, calls,
                   download_retcode>>

\* download_audio: tool check
CheckFfmpeg ==
    /\ pc = "check_ffmpeg"
    /\ calls' = Append(calls, "check_ffmpeg")
    /\ IF ~check_ffmpeg(ffmpegOnPath, ffprobeOnPath)
       THEN /\ out' = Append(out, Line("ffmpeg_missing"))
            /\ result' = "False"
            /\ pc' = "returned"
       ELSE /\ out' = out
            /\ result' = result
            /\ pc' = "ensure_dir"
    /\ UNCHANGED <<url, skip_confirmation, ffmpegOnPath, ffprobeOnPath,
                   dirExists, info, response, raised, uncaught, exitCode,
                   download_retcode>>

\* download_audio: create the output directory if it does not exist.
\* os.makedirs is outside the try block: an OSError it raises leaves
\* download_audio and main, and the interpreter exits with status 1.
EnsureDir ==
    /\ pc = "ensure_dir"
    /\ IF dirExists
       THEN /\ calls' = Append(calls, "exists")
            /\ pc' = "open"
            /\ UNCHANGED <<dirExists, uncaught, exitCode>>
       ELSE \E ok \in BOOLEAN :
              /\ calls' = calls \o <<"exists", "makedirs">>
              /\ IF ok
                 THEN /\ dirExists' = TRUE
                      /\ pc' = "open"
                      /\ UNCHANGED <<uncaught, exitCode>>
                 ELSE /\ uncaught' = "OSError"
                      /\ exitCode' = <<1>>
                      /\ pc' = "exited"
                      /\ UNCHANGED dirExists
    /\ UNCHANGED <<url, skip_confirmation, ffmpegOnPath, ffprobeOnPath,
                   info, response, raised, result, out,
                   download_retcode>>

\* download_audio: with yt_dlp.YoutubeDL(ydl_opts) as ydl
OpenSession ==
    /\ pc = "open"
    /\ \E outcome \in {"ok"} \cup ExcClasses :
         IF outcome = "ok"
         THEN /\ calls' = Append(calls, "YoutubeDL")
              /\ out' = Append(out, Line("analyzing"))
              /\ pc' = "probe"
              /\ UNCHANGED <<raised, result>>
         ELSE Caught("open", outcome, Append(calls, "YoutubeDL"))
    /\ UNCHANGED <<url, skip_confirmation, ffmpegOnPath, ffprobeOnPath,
                   dirExists, info, response, uncaught, exitCode,
                   download_retcode>>

\* download_audio: info = ydl.extract_info(url, download=False)
Probe ==
    /\ pc = "probe"
    /\ \/ \E r \in ProbeResults :
            /\ info' = r
            /\ calls' = Append(calls, "extract_info")
            /\ pc' = "classify"
            /\ UNCHANGED <<raised, result, out>>
       \/ \E exc \in ExcClasses :
            /\ Caught("probe", exc, Append(calls, "extract_info"))
            /\ UNCHANGED info
    /\ UNCHANGED <<url, skip_confirmation, ffmpegOnPath, ffprobeOnPath,
                   dirExists, response, uncaught, exitCode,
                   download_retcode>>

\* Lines printed for a playlist before the confirmation gate.
PlaylistReport(entries) ==
    <<Line("found_playlist"),
      LineN("total", total_count(entries)),
      LineN("available", available_count(entries))>>
    \o (IF total_count(entries) # available_count(entries)
        THEN <<LineN("unavailable",
                     total_count(entries) - available_count(entries))>>
        ELSE <<>>)

\* download_audio: if 'entries' in info ... else ...
Classify ==
    /\ pc = "classify"
    /\ IF info.kind = "none"
       THEN \* 'entries' in None raises TypeError
            Caught("classify", "TypeError", calls)
       ELSE /\ UNCHANGED <<raised, result, calls>>
            /\ IF IsCollection(info)
               THEN IF NeedsConfirmation(info, skip_confirmation)
                    THEN /\ out' = out \o PlaylistReport(info.entries)
                         /\ pc' = "confirm"
                    ELSE /\ out' = out \o PlaylistReport(info.entries)
                                       \o <<Line("downloading_playlist")>>
                         /\ pc' = "download"
               ELSE /\ out' = out \o <<Line("found_video"),
                                       Line("downloading_single")>>
                    /\ pc' = "download"
    /\ UNCHANGED <<url, skip_confirmation, ffmpegOnPath, ffprobeOnPath,
                   dirExists, info, response, uncaught, exitCode,
                   download_retcode>>

\* download_audio: response = input(...); decline unless affirmative
Confirm ==
    /\ pc = "confirm"
    /\ \/ \E r \in Responses :
            /\ response' = r
            /\ calls' = Append(calls, "input")
            /\ raised' = raised
            /\ IF ~IsAffirmative(r)
               THEN /\ out' = Append(out, Line("cancelled"))
                    /\ result' = "False"
                    /\ pc' = "returned"
               ELSE /\ out' = Append(out, Line("downloading_playlist"))
                    /\ result' = result
                    /\ pc' = "download"
       \/ /\ Caught("confirm", "EOFError", Append(calls, "input"))
          /\ UNCHANGED response
    /\ UNCHANGED <<url, skip_confirmation, ffmpegOnPath, ffprobeOnPath,
                   dirExists, info, uncaught, exitCode,
                   download_retcode>>

\* a failed download call is made a second time
Download_Retry ==
    /\ pc = "download"
    /\ \/ \E retcode \in {0, 1} :
            /\ calls' = Append(calls, "download")
            /\ out' = Append(out, Line("completed"))
            /\ download_retcode' = <<retcode>>
            /\ result' = "True"
            /\ raised' = raised
            /\ pc' = "returned"
       \/ \E exc \in ExcClasses :
            IF CountCalls("download") = 0
            THEN /\ calls' = Append(calls, "download")
                 /\ UNCHANGED <<pc, raised, result, out, download_retcode>>
            ELSE /\ Caught("download", exc, Append(calls, "download"))
                 /\ UNCHANGED download_retcode
    /\ UNCHANGED <<url, skip_confirmation, ffmpegOnPath, ffprobeOnPath,
                   dirExists, info, response, uncaught, exitCode>>

\* download_audio: ydl.download([url]); the returned code is not looked at
Download ==
    /\ pc = "download"
    /\ \/ \E retcode \in {0, 1} :
            /\ calls' = Append(calls, "download")
            /\ out' = Append(out, Line("completed"))
            /\ download_retcode' = <<retcode>>
            /\ result' = ReturnAfterDownload(retcode)
            /\ raised' = raised
            /\ pc' = "returned"
       \/ \E exc \in ExcClasses :
            /\ Caught("download", exc, Append(calls, "download"))
            /\ UNCHANGED download_retcode
    /\ UNCHANGED <<url, skip_confirmation, ffmpegOnPath, ffprobeOnPath,
                   dirExists, info, response, uncaught, exitCode>>

\* main: banner and exit status
Report ==
    /\ pc = "returned"
    /\ out' = Append(out, Line(IF result = "True" THEN "all_success"
                                                  ELSE "download_failed"))
    /\ exitCode' = <<ExitCode(result)>>
    /\ pc' = "exited"
    /\ UNCHANGED <<url, skip_confirmation, ffmpegOnPath, ffprobeOnPath,
                   dirExists, info, response, raised, uncaught, result, calls,
                   download_retcode>>

Next ==
    \/ Validate
    \/ CheckFfmpeg
    \/ EnsureDir
    \/ OpenSession
    \/ Probe
    \/ Classify
    \/ Confirm
    \/ Download
    \/ Report

Spec == Init /\ [][Next]_vars

----------------------------------------------------------------------------
\* Properties

\* Position of each external call in the order the program makes them.
Rank(c) ==
    CASE c = "check_ffmpeg" -> 1
      [] c = "exists"       -> 2
      [] c = "makedirs"     -> 3
      [] c = "YoutubeDL"    -> 4
      [] c = "extract_info" -> 5
      [] c = "input"        -> 6
      [] c = "download"     -> 7

\* C1: a URL containing neither 'youtube.com' nor 'youtu.be' makes main exit
\* with code 1 having made no tool check, no directory creation, no probe and
\* no download; download_audio is never entered.
C1_InvalidUrlExitsUntouched ==
    (~Contains(url, youtube_com) /\ ~Contains(url, youtu_be) /\ pc # "main")
        => /\ pc = "exited"
           /\ exitCode = <<1>>
           /\ calls = <<>>
           /\ result = "none"

C1_Witness ==
    /\ pc = "exited"
    /\ url = <<"y","o","u","t","u","b","e",".","c","o">>
    /\ exitCode = <<1>>
    /\ Printed("invalid_url")

\* C2 (as stated): for a playlist without --no-confirm, an answer other than
\* exactly 'y', 'Y', 'yes' or 'YES' ends in failure with no download call.
C2_OnlyFourSpellingsAccepted ==
    (/\ pc = "exited"
     /\ IsCollection(info) /\ ~skip_confirmation /\ Called("input")
     /\ raised.stage # "confirm"
     /\ response \notin {<<"y">>, <<"Y">>, <<"y","e","s">>, <<"Y","E","S">>})
        => (result = "False" /\ ~Called("download"))

\* C2 (amended): for a playlist without --no-confirm, an answer whose
\* lower-cased form is neither 'y' nor 'yes' ends in failure with no download
\* call.
C2_NonAffirmativeDeclines ==
    (/\ IsCollection(info) /\ ~skip_confirmation /\ Called("input")
     /\ Lower(response) \notin {y_str, yes_str})
        => /\ result = "False"
           /\ ~Called("download")
           /\ pc \in {"returned", "exited"}

C2_Witness ==
    /\ pc = "exited"
    /\ IsCollection(info) /\ ~skip_confirmation
    /\ response = <<"y","e">>
    /\ Printed("cancelled")
    /\ result = "False"

\* C3: when ffmpeg or ffprobe is missing, download_audio returns failure at
\* once: the directory is not created and neither probe nor download is
\* called, whether or not the directory existed.
C3_MissingToolStopsEarly ==
    (~(ffmpegOnPath /\ ffprobeOnPath) /\ Called("check_ffmpeg"))
        => /\ result = "False"
           /\ calls = <<"check_ffmpeg">>
           /\ uncaught = "none"
           /\ pc \in {"returned", "exited"}

C3_Witness ==
    /\ pc = "exited"
    /\ ffmpegOnPath /\ ~ffprobeOnPath /\ ~dirExists
    /\ result = "False"
    /\ Printed("ffmpeg_missing")

\* C4: every failure inside download_audio is caught there and becomes a
\* False return value; no exception leaves download_audio.
C4_AllFailuresCaught ==
    /\ uncaught = "none"
    /\ (pc = "exited" /\ Called("check_ffmpeg")) => result \in {"True", "False"}

\* C5: the exit code is 0 exactly when download_audio returned success and 1
\* for an invalid URL, a missing tool, a probe failure, a decline and a
\* download failure; no other code occurs.
C5_ExitCodeMapping ==
    pc = "exited"
        => /\ exitCode \in {<<0>>, <<1>>}
           /\ (exitCode = <<0>>) <=> (result = "True")
           /\ (~Contains(url, youtube_com) /\ ~Contains(url, youtu_be))
                  => exitCode = <<1>>
           /\ ~(ffmpegOnPath /\ ffprobeOnPath) => exitCode = <<1>>
           /\ raised.stage = "probe" => exitCode = <<1>>
           /\ Printed("cancelled") => exitCode = <<1>>
           /\ raised.stage = "download" => exitCode = <<1>>

C5_Witness ==
    /\ pc = "exited"
    /\ raised.stage = "download"
    /\ exitCode = <<1>>
    /\ Printed("download_failed")

\* C6: a single-item probe result is never followed by a prompt, whatever
\* skip_confirmation is; the call after the probe is the download.
C6_SingleItemNoPrompt ==
    (info.kind = "single" /\ pc # "classify")
        => /\ ~Called("input")
           /\ ~Printed("cancelled")
           /\ pc = "download" \/ Called("download")
           /\ Called("download")
                  => /\ calls[Len(calls)] = "download"
                     /\ calls[Len(calls) - 1] = "extract_info"

C6_Witness ==
    /\ info.kind = "single"
    /\ ~skip_confirmation
    /\ Called("download")
    /\ pc = "exited"

\* C7: for a playlist, the printed total is the number of entries, the printed
\* available count is the number of non-None entries, and the warning line is
\* printed exactly when they differ, stating their difference.
C7_AvailabilityTally ==
    (IsCollection(info) /\ pc # "classify")
        => LET t == Len(info.entries)
               a == Cardinality({i \in 1..t : info.entries[i] = "desc"})
           IN /\ \E i \in 1..Len(out) : out[i] = LineN("total", t)
              /\ \E i \in 1..Len(out) : out[i] = LineN("available", a)
              /\ Printed("unavailable") <=> (t # a)
              /\ \A i \in 1..Len(out) :
                     out[i].tag = "unavailable" => out[i].n = t - a

C7_Witness ==
    /\ IsCollection(info)
    /\ info.entries = <<"desc", "None", "desc", "None", "desc">>
    /\ \E i \in 1..Len(out) : out[i] = LineN("unavailable", 2)

\* C8: an exception at the probe or download stage yields failure, labelled
\* 'Download error' for yt_dlp.DownloadError and 'Unexpected error' for any
\* other exception, never the other way round.
C8_ExceptionLabels ==
    raised.stage \in {"probe", "download"}
        => /\ result = "False"
           /\ raised.exc = "DownloadError"
                  => (Printed("download_error") /\ ~Printed("unexpected_error"))
           /\ raised.exc # "DownloadError"
                  => (Printed("unexpected_error") /\ ~Printed("download_error"))

C8_Witness ==
    /\ raised = [stage |-> "probe", exc |-> "DownloadError"]
    /\ Printed("download_error")
    /\ pc = "exited"

\* C9: once the download call returns without raising, the outcome is success
\* and the exit code 0, whatever the total and available counts are and
\* whatever code the call returned.
C9_SkipsNeverFail ==
    (Called("download") /\ raised.stage = "none")
        => /\ result = "True"
           /\ pc = "exited" => exitCode = <<0>>

C9_Witness ==
    /\ pc = "exited"
    /\ IsCollection(info)
    /\ info.entries = <<"None", "None">>
    /\ download_retcode = <<1>>
    /\ exitCode = <<0>>

\* C10: the calls happen in the order tool check, directory, session, probe,
\* prompt, download, each at most once; the download follows a probe that
\* returned and a passed gate; a decline is terminal with failure; success
\* comes only from a download call that returned.
C10_LinearOrder ==
    /\ \A i, j \in 1..Len(calls) : i < j => Rank(calls[i]) < Rank(calls[j])
    /\ Called("extract_info")
           => (Called("check_ffmpeg") /\ Called("exists") /\ dirExists
               /\ Called("YoutubeDL"))
    /\ Called("download")
           => /\ Called("extract_info")
              /\ info.kind \in {"single", "collection"}
              /\ raised.stage \in {"none", "download"}
              /\ \/ info.kind = "single"
                 \/ skip_confirmation
                 \/ Called("input") /\ Lower(response) \in {y_str, yes_str}
    /\ Printed("cancelled")
           => (result = "False" /\ ~Called("download")
               /\ pc \in {"returned", "exited"})
    /\ result = "True"
           => (Called("download") /\ raised.stage = "none"
               /\ Printed("completed"))

C10_Witness ==
    /\ pc = "exited"
    /\ calls = <<"check_ffmpeg", "exists", "makedirs", "YoutubeDL",
                 "extract_info", "input", "download">>
    /\ result = "True"

====
